---- MODULE Spec2Model ----
(***************************************************************************)
(* Model of apps/site/public/images.py: a linear script that rasterizes    *)
(* favicon.svg into the PNGs of the `sizes` mapping, renders a 256x256     *)
(* temporary PNG and packs it into favicon.ico.                            *)
(*                                                                         *)
(* The disk is a function from paths to file contents.  cairosvg.svg2png,  *)
(* Image.open and Image.save are modelled by what they do to the disk:     *)
(* svg2png parses the source before it opens the output, Image.save keeps  *)
(* only the requested sizes that fit into the opened image.  The           *)
(* environment decides which source is on disk, which output paths are     *)
(* writable and whether the ICO encoder works; it may re-run the script.   *)
(***************************************************************************)
EXTENDS Integers, Sequences, FiniteSets, TLC

VARIABLES sizes, fs, unwritable, encoderOk, pc, i, img, log, failure,
          run, fs0, prevDone, prevSrc

vars == <<sizes, fs, unwritable, encoderOk, pc, i, img, log, failure,
          run, fs0, prevDone, prevSrc>>

(* ------------------------------ bounds --------------------------------- *)
MaxRuns == 2
MaxUnwritable == 1

(* --------------------------- program constants ------------------------- *)
input_svg == "favicon.svg"
temp_png == "temp_256.png"
favicon_ico == "favicon.ico"
HiRes == 256

\* the `sizes` dict of the script, in insertion order
ReferenceSizes ==
  << <<"favicon-16x16.png", 16>>,
     <<"favicon-32x32.png", 32>>,
     <<"apple-touch-icon.png", 180>> >>

\* the dict as written, and the same dict with an entry removed, an entry's
\* size changed and an entry added
SizeSpecs ==
  { ReferenceSizes,
    << <<"favicon-16x16.png", 16>>, <<"favicon-32x32.png", 32>> >>,
    << <<"favicon-16x16.png", 48>>,
       <<"favicon-32x32.png", 32>>,
       <<"apple-touch-icon.png", 180>> >>,
    << <<"favicon-16x16.png", 16>>,
       <<"favicon-32x32.png", 32>>,
       <<"apple-touch-icon.png", 180>>,
       <<"icon-512.png", 512>> >> }

\* sizes=[(16,16), (32,32), (48,48), (256,256)] of img.save
ico_sizes == { <<16, 16>>, <<32, 32>>, <<48, 48>>, <<256, 256>> }

(* ------------------------------ the disk ------------------------------- *)
NoFile == [fmt |-> "none"]
Partial == [fmt |-> "partial"]
Svg(id) == [fmt |-> "svg", id |-> id]
Malformed == [fmt |-> "svg", id |-> "malformed"]
SourceStates == { NoFile, Malformed, Svg("A"), Svg("B") }

Keys(s) == { s[k][1] : k \in 1..Len(s) }
OutputPaths ==
  UNION { Keys(s) : s \in SizeSpecs } \cup { temp_png, favicon_ico }
Paths == OutputPaths \cup { input_svg }

\* events of the process, in program order
Ev(op, path, line) == [op |-> op, path |-> path, line |-> line]

\* variant: the encoder stamps the output with the time of the run
Raster_timestamped(src, output_width, output_height) ==
  [fmt |-> "png", w |-> output_width, h |-> output_height, src |-> src.id,
   stamp |-> run]

\* the raster cairosvg renders from a parsed source
Raster(src, output_width, output_height) ==
  [fmt |-> "png", w |-> output_width, h |-> output_height, src |-> src.id]

Wellformed(f) == f.fmt = "svg" /\ f # Malformed

\* variant: the loop stops one entry early
LoopNext_skiplast(j) == IF j >= Len(sizes) THEN "hires" ELSE "loop"

\* position after entry j of the for loop
LoopNext(j) == IF j > Len(sizes) THEN "hires" ELSE "loop"

Init ==
  /\ sizes \in SizeSpecs
  /\ \E s \in SourceStates :
       fs = [p \in Paths |-> IF p = input_svg THEN s ELSE NoFile]
  /\ unwritable \in { u \in SUBSET OutputPaths : Cardinality(u) <= MaxUnwritable }
  /\ encoderOk \in BOOLEAN
  /\ pc = LoopNext(1)
  /\ i = 1
  /\ img = NoFile
  /\ log = << >>
  /\ failure = "none"
  /\ run = 1
  /\ fs0 = fs
  /\ prevDone = FALSE
  /\ prevSrc = NoFile

\* variant: the call is wrapped in try/except and the script carries on
Raise_swallow(kind, next) ==
  /\ pc' = next
  /\ failure' = kind

\* no statement of the script is inside a try block: an exception raised by
\* a library call ends the process, the statement after it (next) never runs
Raise(kind, next) ==
  /\ pc' = "failed"
  /\ failure' = kind

\* cairosvg.svg2png(url=input_svg, write_to=..., output_width=..., output_height=...)
\* Tree(url=...) reads and parses the source first; the surface is drawn and
\* only then written to write_to.
svg2png(write_to, output_width, output_height, line, next) ==
  IF ~Wellformed(fs[input_svg])
  THEN /\ Raise("RenderFailure", next)
       /\ log' = Append(log, Ev("read", input_svg, line))
       /\ fs' = fs
  ELSE IF write_to \in unwritable
  THEN /\ Raise("WriteFailure", next)
       /\ log' = log \o << Ev("read", input_svg, line), Ev("write", write_to, line) >>
       /\ fs' \in { fs, [fs EXCEPT ![write_to] = Partial] }
  ELSE /\ pc' = next
       /\ failure' = failure
       /\ log' = log \o << Ev("read", input_svg, line), Ev("write", write_to, line) >>
       /\ fs' = [fs EXCEPT ![write_to] =
                   Raster(fs[input_svg], output_width, output_height)]

\* variant: only output_width is passed, the height follows the 512 viewport
LoopRender_widthonly ==
  /\ pc = "loop"
  /\ LET filename == sizes[i][1]
         size == sizes[i][2]
     IN svg2png(filename, size, 512, 15, "loop_print")
  /\ UNCHANGED <<sizes, unwritable, encoderOk, i, img, run, fs0, prevDone, prevSrc>>

\* variant: the script opens the output file itself before it renders
LoopRender_openfirst ==
  /\ pc = "loop"
  /\ LET filename == sizes[i][1]
         size == sizes[i][2]
     IN IF filename \in unwritable
        THEN /\ Raise("WriteFailure", "loop_print")
             /\ log' = Append(log, Ev("write", filename, 15))
             /\ fs' = fs
        ELSE IF ~Wellformed(fs[input_svg])
        THEN /\ Raise("RenderFailure", "loop_print")
             /\ log' = log \o << Ev("write", filename, 15), Ev("read", input_svg, 15) >>
             /\ fs' = [fs EXCEPT ![filename] = Partial]
        ELSE /\ pc' = "loop_print"
             /\ failure' = failure
             /\ log' = log \o << Ev("write", filename, 15), Ev("read", input_svg, 15) >>
             /\ fs' = [fs EXCEPT ![filename] = Raster(fs[input_svg], size, size)]
  /\ UNCHANGED <<sizes, unwritable, encoderOk, i, img, run, fs0, prevDone, prevSrc>>

\* line 15: cairosvg.svg2png(..., write_to=filename, output_width=size, output_height=size)
LoopRender ==
  /\ pc = "loop"
  /\ LET filename == sizes[i][1]
         size == sizes[i][2]
     IN svg2png(filename, size, size, 15, "loop_print")
  /\ UNCHANGED <<sizes, unwritable, encoderOk, i, img, run, fs0, prevDone, prevSrc>>

\* variant: the print is dedented out of the loop and runs once, after it
LoopPrint_afterloop ==
  /\ pc = "loop_print"
  /\ log' = IF i = Len(sizes) THEN Append(log, Ev("print", sizes[i][1], 16)) ELSE log
  /\ i' = i + 1
  /\ pc' = LoopNext(i + 1)
  /\ UNCHANGED <<sizes, fs, unwritable, encoderOk, img, failure, run, fs0,
                 prevDone, prevSrc>>

\* line 16: print(f"Created {filename}"), then the next entry of the loop
LoopPrint ==
  /\ pc = "loop_print"
  /\ log' = Append(log, Ev("print", sizes[i][1], 16))
  /\ i' = i + 1
  /\ pc' = LoopNext(i + 1)
  /\ UNCHANGED <<sizes, fs, unwritable, encoderOk, img, failure, run, fs0,
                 prevDone, prevSrc>>

\* line 20: cairosvg.svg2png(..., write_to="temp_256.png", output_width=256, output_height=256)
HiResRender ==
  /\ pc = "hires"
  /\ svg2png(temp_png, HiRes, HiRes, 20, "open")
  /\ UNCHANGED <<sizes, unwritable, encoderOk, i, img, run, fs0, prevDone, prevSrc>>

\* variant: the 32x32 PNG of the loop is used as the base of the container
ImageOpen_base32 ==
  /\ pc = "open"
  /\ log' = Append(log, Ev("read", "favicon-32x32.png", 21))
  /\ IF fs["favicon-32x32.png"].fmt = "png"
     THEN /\ img' = fs["favicon-32x32.png"]
          /\ pc' = "save"
          /\ failure' = failure
     ELSE /\ img' = img
          /\ Raise("PackFailure", "save")
  /\ UNCHANGED <<sizes, fs, unwritable, encoderOk, i, run, fs0, prevDone, prevSrc>>

\* line 21: img = Image.open("temp_256.png")
ImageOpen ==
  /\ pc = "open"
  /\ log' = Append(log, Ev("read", temp_png, 21))
  /\ IF fs[temp_png].fmt = "png"
     THEN /\ img' = fs[temp_png]
          /\ pc' = "save"
          /\ failure' = failure
     ELSE /\ img' = img
          /\ Raise("PackFailure", "save")
  /\ UNCHANGED <<sizes, fs, unwritable, encoderOk, i, run, fs0, prevDone, prevSrc>>

\* the sizes the ICO encoder embeds: the requested ones that fit the image
\* and the format's 256 limit
IcoFrames(im, requested) ==
  { s[1] : s \in { r \in requested :
                     r[1] <= im.w /\ r[2] <= im.h /\ r[1] <= 256 /\ r[2] <= 256 } }

Ico(im, requested) ==
  [fmt |-> "ico", res |-> IcoFrames(im, requested), src |-> im.src]

\* variant: a failure of the encoder is ignored and the script prints anyway
ImageSave_ignorefail ==
  /\ pc = "save"
  /\ log' = Append(log, Ev("write", favicon_ico, 22))
  /\ IF favicon_ico \in unwritable
     THEN /\ Raise("WriteFailure", "print")
          /\ fs' = fs
     ELSE IF ~encoderOk
     THEN /\ pc' = "print"
          /\ failure' = "PackFailure"
          /\ fs' \in { [fs EXCEPT ![favicon_ico] = c] : c \in { NoFile, Partial } }
     ELSE /\ pc' = "print"
          /\ failure' = failure
          /\ fs' = [fs EXCEPT ![favicon_ico] = Ico(img, ico_sizes)]
  /\ UNCHANGED <<sizes, unwritable, encoderOk, i, img, run, fs0, prevDone, prevSrc>>

\* line 22: img.save("favicon.ico", format='ICO', sizes=[...])
ImageSave ==
  /\ pc = "save"
  /\ log' = Append(log, Ev("write", favicon_ico, 22))
  /\ IF favicon_ico \in unwritable
     THEN /\ Raise("WriteFailure", "print")
          /\ fs' = fs
     ELSE IF ~encoderOk
     THEN /\ Raise("PackFailure", "print")
          /\ fs' \in { [fs EXCEPT ![favicon_ico] = c] : c \in { NoFile, Partial } }
     ELSE /\ pc' = "print"
          /\ failure' = failure
          /\ fs' = [fs EXCEPT ![favicon_ico] = Ico(img, ico_sizes)]
  /\ UNCHANGED <<sizes, unwritable, encoderOk, i, img, run, fs0, prevDone, prevSrc>>

\* variant: the temporary file is removed once the container is written
IcoPrint_cleanup ==
  /\ pc = "print"
  /\ log' = Append(log, Ev("print", favicon_ico, 23))
  /\ fs' = [fs EXCEPT ![temp_png] = NoFile]
  /\ pc' = "done"
  /\ UNCHANGED <<sizes, unwritable, encoderOk, i, img, failure, run, fs0,
                 prevDone, prevSrc>>

\* variant: the last line names the file that was rendered last
IcoPrint_namestemp ==
  /\ pc = "print"
  /\ log' = Append(log, Ev("print", temp_png, 23))
  /\ pc' = "done"
  /\ UNCHANGED <<sizes, fs, unwritable, encoderOk, i, img, failure, run, fs0,
                 prevDone, prevSrc>>

\* line 23: print("Created favicon.ico"), end of the script
IcoPrint ==
  /\ pc = "print"
  /\ log' = Append(log, Ev("print", favicon_ico, 23))
  /\ pc' = "done"
  /\ UNCHANGED <<sizes, fs, unwritable, encoderOk, i, img, failure, run, fs0,
                 prevDone, prevSrc>>

\* the script is invoked again in the same directory; between two runs the
\* environment may have replaced the source and changed permissions
Rerun ==
  /\ pc \in { "done", "failed" }
  /\ run < MaxRuns
  /\ run' = run + 1
  /\ \E s \in SourceStates : fs' = [fs EXCEPT ![input_svg] = s]
  /\ unwritable' \in { u \in SUBSET OutputPaths : Cardinality(u) <= MaxUnwritable }
  /\ fs0' = fs'
  /\ prevDone' = (pc = "done")
  /\ prevSrc' = fs0[input_svg]
  /\ pc' = LoopNext(1)
  /\ i' = 1
  /\ img' = NoFile
  /\ log' = << >>
  /\ failure' = "none"
  /\ UNCHANGED <<sizes, encoderOk>>

Next ==
  \/ LoopRender
  \/ LoopPrint
  \/ HiResRender
  \/ ImageOpen
  \/ ImageSave
  \/ IcoPrint
  \/ Rerun

Spec == Init /\ [][Next]_vars

(* ------------------------- derived observations ------------------------ *)
Events(op) == SelectSeq(log, LAMBDA e : e.op = op)
PathsOf(es) == [k \in 1..Len(es) |-> es[k].path]
\* the lines printed so far, by the file they name
Stdout == PathsOf(Events("print"))
\* the write attempts of this run, in order
Writes == PathsOf(Events("write"))
\* write attempts of the for loop (line 15)
LoopWrites == PathsOf(SelectSeq(log, LAMBDA e : e.op = "write" /\ e.line = 15))
Range(s) == { s[k] : k \in 1..Len(s) }
IsPrefix(s, t) == Len(s) <= Len(t) /\ \A k \in 1..Len(s) : s[k] = t[k]
NoDuplicates(s) == \A j, k \in 1..Len(s) : s[j] = s[k] => j = k
KeySeq(s) == [k \in 1..Len(s) |-> s[k][1]]
\* entry k of the loop has been rendered and written in this run
EntryWritten(k) == k < i \/ (k = i /\ pc = "loop_print")
\* the source the current run started with
Source == fs0[input_svg]

(* -------------------------------- C1 ----------------------------------- *)
\* C1: when the script has run to completion, the files written by the for
\* loop are exactly the keys of `sizes`, one write per entry, each on disk as
\* a PNG; for the dict as written these are favicon-16x16.png,
\* favicon-32x32.png and apple-touch-icon.png, three files.
C1_LoopWritesExactlyKeys ==
  pc = "done" =>
    /\ Range(LoopWrites) = Keys(sizes)
    /\ Len(LoopWrites) = Len(sizes)
    /\ \A p \in Keys(sizes) : fs[p].fmt = "png"
    /\ sizes = ReferenceSizes =>
         /\ Range(LoopWrites) =
              { "favicon-16x16.png", "favicon-32x32.png", "apple-touch-icon.png" }
         /\ Len(LoopWrites) = 3

C1_Witness ==
  /\ pc = "done"
  /\ sizes = ReferenceSizes
  /\ Len(LoopWrites) = 3

(* -------------------------------- C2 ----------------------------------- *)
\* C2: the raster written for an entry (filename, size) is size wide and size
\* high; every PNG on disk, the temporary one included, is square, and the
\* temporary one is 256 by 256.
C2_RasterDimensions ==
  /\ \A k \in 1..Len(sizes) :
       EntryWritten(k) =>
         /\ fs[sizes[k][1]].fmt = "png"
         /\ fs[sizes[k][1]].w = sizes[k][2]
         /\ fs[sizes[k][1]].h = sizes[k][2]
  /\ \A p \in OutputPaths : fs[p].fmt = "png" => fs[p].w = fs[p].h
  /\ pc \in { "open", "save", "print", "done" } =>
       /\ fs[temp_png].fmt = "png"
       /\ fs[temp_png].w = 256
       /\ fs[temp_png].h = 256

C2_Witness ==
  /\ pc = "done"
  /\ sizes = ReferenceSizes
  /\ fs["apple-touch-icon.png"].w = 180
  /\ fs["apple-touch-icon.png"].h = 180
  /\ fs[temp_png].w = 256

EntryEvents(e) ==
  << [op |-> "read", path |-> "favicon.svg", line |-> 15],
     [op |-> "write", path |-> e[1], line |-> 15],
     [op |-> "print", path |-> e[1], line |-> 16] >>

RECURSIVE BatchEvents(_)
BatchEvents(s) ==
  IF s = << >> THEN << >> ELSE EntryEvents(Head(s)) \o BatchEvents(Tail(s))

ExpectedEvents(s) ==
  BatchEvents(s) \o
  << [op |-> "read", path |-> "favicon.svg", line |-> 20],
     [op |-> "write", path |-> "temp_256.png", line |-> 20],
     [op |-> "read", path |-> "temp_256.png", line |-> 21],
     [op |-> "write", path |-> "favicon.ico", line |-> 22],
     [op |-> "print", path |-> "favicon.ico", line |-> 23] >>

\* C4: the steps of a run happen in the order Operation A (every entry, in
\* insertion order), Operation B, Operation C: what a run has done so far is
\* always an initial part of that order, a completed run has done all of it,
\* and with the dict as written it has printed four lines, naming
\* favicon-16x16.png, favicon-32x32.png, apple-touch-icon.png, favicon.ico.
C4_StrictOrder ==
  /\ IsPrefix(log, ExpectedEvents(sizes))
  /\ pc = "done" => log = ExpectedEvents(sizes)
  /\ pc = "done" /\ sizes = ReferenceSizes =>
       Stdout = << "favicon-16x16.png", "favicon-32x32.png",
                   "apple-touch-icon.png", "favicon.ico" >>

C4_Witness ==
  /\ pc = "done"
  /\ sizes = ReferenceSizes
  /\ Len(Stdout) = 4
  /\ Len(log) = 14

(* -------------------------------- C5 ----------------------------------- *)
\* C5: a run started without favicon.svg ends with a render failure at its
\* first statement: it attempts no write and leaves every output path as it
\* was (absent, in a fresh directory).
C5_AbsentSourceNoOutput ==
  Source = NoFile =>
    /\ pc \in { LoopNext(1), "failed" }
    /\ pc = "failed" => failure = "RenderFailure"
    /\ Writes = << >>
    /\ \A p \in OutputPaths : fs[p] = fs0[p]
    /\ run = 1 => \A p \in OutputPaths : fs[p] = NoFile

C5_Witness ==
  /\ Source = NoFile
  /\ run = 1
  /\ pc = "failed"
  /\ failure = "RenderFailure"
  /\ log # << >>

(* -------------------------------- C6 ----------------------------------- *)
\* the state a run is left in by a failure
FailedRunState ==
  failure # "none" =>
    /\ pc = "failed"
    /\ NoDuplicates(Writes)
    /\ \A k \in 1..Len(sizes) :
         /\ k < i =>
              /\ sizes[k][1] \in Range(Writes)
              /\ fs[sizes[k][1]] =
                   [fmt |-> "png", w |-> sizes[k][2], h |-> sizes[k][2],
                    src |-> Source.id]
         /\ k > i => sizes[k][1] \notin Range(Writes)
    /\ i <= Len(sizes) =>
         /\ temp_png \notin Range(Writes)
         /\ favicon_ico \notin Range(Writes)
    /\ i > Len(sizes) =>
         IF \E k \in 1..Len(log) : log[k].line > 20
         THEN fs[temp_png] = [fmt |-> "png", w |-> 256, h |-> 256, src |-> Source.id]
         ELSE favicon_ico \notin Range(Writes)

\* C6: a failure ends the run at once, without retry or cleanup: after a
\* failure on entry k the files of the entries before k are on disk as
\* written, no write was attempted for a later entry, temp_256.png or
\* favicon.ico, and nothing more happens in that run; after a failure in
\* Operation B or C everything written before it is still there.
C6_FailureAborts ==
  /\ []FailedRunState
  /\ [][failure # "none" => run' # run]_vars

C6_Witness ==
  /\ failure = "WriteFailure"
  /\ pc = "failed"
  /\ sizes = ReferenceSizes
  /\ i = 2
  /\ fs["favicon-16x16.png"].fmt = "png"
  /\ Writes = << "favicon-16x16.png", "favicon-32x32.png" >>

(* -------------------------------- C7 ----------------------------------- *)
\* C7 as stated: at the end of a successful run the files named by the
\* confirmation lines are the files the run wrote, one line per file.
C7_OneLinePerWrittenFile ==
  pc = "done" =>
    /\ Range(Stdout) = Range(Writes)
    /\ Len(Stdout) = Len(Writes)

\* C7, amended: at the end of a successful run there is exactly one
\* confirmation line for each key of `sizes` and one for favicon.ico, and
\* none for temp_256.png, which the run wrote as well.
C7_OneLinePerFinalOutput ==
  pc = "done" =>
    /\ Range(Stdout) = Keys(sizes) \cup { favicon_ico }
    /\ Range(Stdout) = Range(Writes) \ { temp_png }
    /\ temp_png \in Range(Writes)
    /\ NoDuplicates(Stdout)
    /\ Len(Stdout) = Len(Writes) - 1

C7_Witness ==
  /\ pc = "done"
  /\ sizes = ReferenceSizes
  /\ Len(Writes) = 5
  /\ Len(Stdout) = 4
  /\ fs[temp_png].fmt = "png"

C9_WriteOnceNoDelete ==
  /\ NoDuplicates(Writes)
  /\ temp_png \notin Keys(sizes) \cup { favicon_ico }
  /\ input_svg \notin Range(Writes)
  /\ fs[input_svg] = fs0[input_svg]
  /\ failure = "none" => \A p \in Range(Writes) : fs[p].fmt \in { "png", "ico" }
  /\ pc = "done" => fs[temp_png].fmt = "png"

C9_Witness ==
  /\ pc = "done"
  /\ Len(Writes) = 5
  /\ fs[temp_png].fmt = "png"
  /\ fs[favicon_ico].fmt = "ico"

(* -------------------------------- C10 ---------------------------------- *)
\* C10: a confirmation line follows the write of the file it names, so a
\* printed file is on disk; a run that failed on entry k has printed the
\* names of the entries before k and nothing else, and a failed run has not
\* printed the line for favicon.ico.
C10_PrintAfterWrite ==
  /\ \A j \in 1..Len(log) :
       log[j].op = "print" =>
         /\ \E k \in 1..(j - 1) : log[k].op = "write" /\ log[k].path = log[j].path
         /\ fs[log[j].path].fmt \in { "png", "ico" }
  /\ failure # "none" /\ i <= Len(sizes) =>
       Stdout = SubSeq(KeySeq(sizes), 1, i - 1)
  /\ failure # "none" => favicon_ico \notin Range(Stdout)

C10_Witness ==
  /\ failure = "PackFailure"
  /\ sizes = ReferenceSizes
  /\ Stdout = << "favicon-16x16.png", "favicon-32x32.png", "apple-touch-icon.png" >>
  /\ fs[favicon_ico].fmt # "ico"

====
